---- MODULE Spec2Model ----
(***************************************************************************)
(* Link collection and classification pipeline: the session pool           *)
(* coordinator (collector.start_collection / stop_collection), the         *)
(* per-account crawl worker (collector.run_client), the per-message        *)
(* pipeline (collector.process_message), the classification policy         *)
(* (link_utils) and the link store (database.save_link).                   *)
(*                                                                         *)
(* The program is a single asyncio event loop: tasks interleave only at    *)
(* await points, so every action below is the code between two awaits.     *)
(***************************************************************************)
EXTENDS Integers, Sequences, FiniteSets, Bags, TLC

(***************************************************************************)
(* String helpers: Python str operations used by link_utils and collector. *)
(***************************************************************************)
UpperChars == "ABCDEFGHIJKLMNOPQRSTUVWXYZ"
LowerChars == "abcdefghijklmnopqrstuvwxyz"
DigitChars == "0123456789"

Ch(s, i) == SubSeq(s, i, i)

InChars(c, chars) == \E i \in 1..Len(chars) : Ch(chars, i) = c

LowerChar(c) ==
    IF InChars(c, UpperChars)
    THEN Ch(LowerChars, CHOOSE i \in 1..Len(UpperChars) : Ch(UpperChars, i) = c)
    ELSE c

RECURSIVE Lower(_)
Lower(s) == IF s = "" THEN "" ELSE LowerChar(Ch(s, 1)) \o Lower(SubSeq(s, 2, Len(s)))

StartsWith(s, p) == Len(s) >= Len(p) /\ SubSeq(s, 1, Len(p)) = p

\* first index at which sub occurs in s, 0 when it does not (str.find + 1)
Find(s, sub) ==
    LET hits == {i \in 1..(Len(s) - Len(sub) + 1) : SubSeq(s, i, i + Len(sub) - 1) = sub}
    IN  IF hits = {} THEN 0 ELSE CHOOSE i \in hits : \A j \in hits : i <= j

Contains(s, sub) == Find(s, sub) # 0

\* s.split(sep)[0]
SplitFirst(s, sep) ==
    IF Contains(s, sep) THEN SubSeq(s, 1, Find(s, sep) - 1) ELSE s

\* s.split(sep)[1], for s that contains sep
SplitSecond(s, sep) ==
    SplitFirst(SubSeq(s, Find(s, sep) + Len(sep), Len(s)), sep)

\* s.replace(c, "") for a one-character c
RECURSIVE RemoveChar(_, _)
RemoveChar(s, c) ==
    IF s = "" THEN ""
    ELSE (IF Ch(s, 1) = c THEN "" ELSE Ch(s, 1)) \o RemoveChar(SubSeq(s, 2, Len(s)), c)

IsAlnumChar(c) == InChars(c, UpperChars) \/ InChars(c, LowerChars) \/ InChars(c, DigitChars)

\* str.isalnum(): false on the empty string
IsAlnum(s) == s # "" /\ \A i \in 1..Len(s) : IsAlnumChar(Ch(s, i))

\* str.isdigit(): false on the empty string
IsDigit(s) == s # "" /\ \A i \in 1..Len(s) : InChars(Ch(s, i), DigitChars)

RECURSIVE LStrip(_)
LStrip(s) == IF s # "" /\ Ch(s, 1) = " " THEN LStrip(SubSeq(s, 2, Len(s))) ELSE s

RECURSIVE RStrip(_)
RStrip(s) == IF s # "" /\ Ch(s, Len(s)) = " " THEN RStrip(SubSeq(s, 1, Len(s) - 1)) ELSE s

Strip(s) == RStrip(LStrip(s))

\* re.match of  https?://<host>/<lead>[cls]+  with re.IGNORECASE, on a lowered s
MatchHostPrefix(s, host, lead, cls) ==
    \E scheme \in {"http://", "https://"} :
        LET p == scheme \o host \o "/" \o lead
        IN  /\ StartsWith(s, p)
            /\ Len(s) > Len(p)
            /\ InChars(Ch(s, Len(p) + 1), cls)

(***************************************************************************)
(* link_utils: the classification policy.                                  *)
(***************************************************************************)
TgWordChars == LowerChars \o DigitChars \o "_-"
WaWordChars == LowerChars \o DigitChars

\* the text of the patterns of TG_REJECTED_PATTERNS
TG_REJECTED_PATTERNS == {"/bot/", "t.me/bot", "/invite/", "t.me/invite"}

TgRejected(link_lower) == \E p \in TG_REJECTED_PATTERNS : Contains(link_lower, p)

TG_PLUS_INVITE_REGEX(url) == MatchHostPrefix(Lower(url), "t.me", "+", TgWordChars)

\* [A-Za-z0-9_-]+(?!/) backtracks: it matches when some non-empty run of
\* word characters after the host is not directly followed by "/"
TG_WITHOUT_PLUS_REGEX(url) ==
    LET s == Lower(url)
    IN  \E scheme \in {"http://", "https://"} :
            LET p == scheme \o "t.me/"
            IN  /\ StartsWith(s, p)
                /\ \E k \in 1..(Len(s) - Len(p)) :
                      /\ \A j \in 1..k : InChars(Ch(s, Len(p) + j), TgWordChars)
                      /\ (Len(p) + k < Len(s) => Ch(s, Len(p) + k + 1) # "/")

WA_GROUP_REGEX(url) == MatchHostPrefix(Lower(url), "chat.whatsapp.com", "", WaWordChars)

WA_PHONE_REGEX(url) == MatchHostPrefix(Lower(url), "wa.me", "", DigitChars)

is_valid_link_for_extraction(link) ==
    IF link = "" THEN FALSE
    ELSE LET link_lower == Lower(link)
         IN  IF TgRejected(link_lower) THEN FALSE
             ELSE IF Contains(link_lower, "t.me") \/ Contains(link_lower, "telegram.me") THEN TRUE
             ELSE IF Contains(link_lower, "whatsapp.com") \/ Contains(link_lower, "wa.me") THEN TRUE
             ELSE FALSE

classify_telegram_link(url) ==
    LET url_lower == Lower(url)
    IN  IF TG_PLUS_INVITE_REGEX(url) THEN <<"invite_with_plus", "group">>
        ELSE IF TG_WITHOUT_PLUS_REGEX(url)
             THEN IF Contains(url_lower, "c/") \/ Contains(url_lower, "channel/")
                  THEN <<"invite_without_plus", "channel">>
                  ELSE <<"invite_without_plus", "group">>
        ELSE <<"unknown", "unknown">>

classify_whatsapp_link(url) ==
    IF WA_GROUP_REGEX(url) THEN "group"
    ELSE IF WA_PHONE_REGEX(url) THEN "private"
    ELSE "unknown"

is_valid_telegram_link(link) ==
    LET link_lower == Strip(Lower(link))
    IN  IF TgRejected(link_lower) THEN FALSE
        ELSE IF ~Contains(link_lower, "t.me/") THEN FALSE
        ELSE LET path_part == SplitFirst(SplitSecond(link_lower, "t.me/"), "?")
                 first_segment == SplitFirst(path_part, "/")
                 remaining == SubSeq(first_segment, 2, Len(first_segment))
             IN  IF Contains(path_part, "/") THEN FALSE
                 ELSE IF /\ StartsWith(first_segment, "+")
                         /\ Len(first_segment) <= 12
                         /\ IsDigit(remaining)
                         /\ 7 <= Len(remaining) /\ Len(remaining) <= 12
                      THEN FALSE
                 ELSE IF StartsWith(first_segment, "+")
                      THEN IsAlnum(RemoveChar(RemoveChar(remaining, "_"), "-"))
                 ELSE IsAlnum(RemoveChar(RemoveChar(first_segment, "_"), "-"))

\* None is the rejection; otherwise <<platform_type, chat_type>>
None == <<>>

filter_and_classify_link(url) ==
    IF ~is_valid_link_for_extraction(url) THEN None
    ELSE IF Contains(Lower(url), "t.me") \/ Contains(Lower(url), "telegram.me")
         THEN IF ~is_valid_telegram_link(url) THEN None
              ELSE <<"telegram_" \o classify_telegram_link(url)[1], classify_telegram_link(url)[2]>>
    ELSE IF Contains(Lower(url), "whatsapp.com") \/ Contains(Lower(url), "wa.me")
         THEN IF classify_whatsapp_link(url) = "group" THEN <<"whatsapp", "group">> ELSE None
    ELSE None

\* URL_REGEX.findall(text), URL_REGEX = (https?://[^\s<>"]+) with re.IGNORECASE:
\* the matches left to right, each the longest run that has no terminator
UrlTerminators == " <>\""

SchemeLen(s) ==
    IF StartsWith(Lower(s), "https://") THEN 8
    ELSE IF StartsWith(Lower(s), "http://") THEN 7
    ELSE 0

RECURSIVE RunLen(_, _)
RunLen(s, i) ==
    IF i > Len(s) \/ InChars(Ch(s, i), UrlTerminators) THEN 0 ELSE 1 + RunLen(s, i + 1)

RECURSIVE FindAll(_, _)
FindAll(text, i) ==
    IF i > Len(text) THEN {}
    ELSE LET plen == SchemeLen(SubSeq(text, i, Len(text)))
             run  == RunLen(text, i + plen)
         IN  IF plen > 0 /\ run > 0
             THEN {SubSeq(text, i, i + plen + run - 1)} \cup FindAll(text, i + plen + run)
             ELSE FindAll(text, i + 1)

\* the links a text scan keeps: every match that passes the pre-filter, stripped
ScanText(text) ==
    {Strip(l) : l \in {u \in FindAll(text, 1) : is_valid_link_for_extraction(u)}}


(***************************************************************************)
(* The accounts and what the protocol client serves them.  Time is in      *)
(* whole seconds.                                                          *)
(***************************************************************************)
Day == 86400

\* wall-clock time when the program starts
Now0 == 1000 * Day

\* the clock advances in steps of TickStep, at most MaxTicks times
TickStep == Day
MaxTicks == 1

\* start requests the control surface accepts in one behaviour
MaxStarts == 2

\* worker tasks created in one behaviour
MaxWorkers == 2

\* failures of the protocol client (a raise, a failed download) in one behaviour
MaxFailures == 1

NoFile == <<>>
NoReplies == <<>>

\* markup is the kind of message.reply_markup: none, a markup with rows of
\* buttons, or ReplyKeyboardHide, which has no rows attribute
Msg(id, text, buttons, replies, file, date) ==
    [id |-> id, text |-> text, buttons |-> buttons, replies |-> replies,
     file |-> file, date |-> date, markup |-> IF buttons = {} THEN "none" ELSE "rows"]

MsgKeyboardHide(id, text, date) ==
    [id |-> id, text |-> text, buttons |-> {}, replies |-> NoReplies,
     file |-> NoFile, date |-> date, markup |-> "hide"]

File(name, id, size, mime, content) ==
    [name |-> name, id |-> id, size |-> size, mime_type |-> mime, content |-> content]

\* message.replies: comments flag, and the replies the thread holds (their texts)
Replies(texts) == [comments |-> TRUE, replies |-> texts]

\* the accounts a session can be configured for, and what get_all_sessions()
\* can return when the program starts
Accounts == {"acc1", "acc2"}

SessionConfigs == {<<>>, <<"acc1">>, <<"acc1", "acc2">>}

\* iter_dialogs / iter_messages(reverse=True): per account, the conversations
\* and their history, oldest first
DialogsOf(acct) ==
    IF acct = "acc1"
    THEN << [chat_id |-> "c1", messages |->
               << Msg(1, "https://t.me/+AAA and https://example.com", {}, NoReplies, NoFile,
                      Now0 - 10 * Day),
                  Msg(2, "", {"https://chat.whatsapp.com/BBB"}, NoReplies, NoFile,
                      Now0 - 5 * Day),
                  Msg(3, "", {}, NoReplies,
                      File("list.txt", 7, 120, "text/plain", "https://t.me/channelname"),
                      Now0 - Day) >>],
            [chat_id |-> "c2", messages |->
               << Msg(1, "old https://chat.whatsapp.com/CCC", {},
                      Replies(<<"https://chat.whatsapp.com/DDD https://t.me/mychannel">>),
                      File("wa.txt", 8, 64, "text/plain", "https://chat.whatsapp.com/EEE"),
                      Now0 - 60 * Day + 1),
                  MsgKeyboardHide(2, "keyboard removed", Now0 - 3 * Day),
                  Msg(3, "late https://chat.whatsapp.com/GGG", {}, NoReplies, NoFile,
                      Now0 - 2 * Day) >>] >>
    ELSE << [chat_id |-> "c3", messages |->
               << Msg(1, "see https://chat.whatsapp.com/CCC https://wa.me/15551234567",
                      {"https://chat.whatsapp.com/BBB"}, NoReplies,
                      File("wa.txt", 8, 64, "text/plain", "https://chat.whatsapp.com/EEE"),
                      Now0 - 2 * Day) >>] >>

\* the message that arrives while the program runs, and the conversation it
\* arrives in; NoLive for an account that receives none
NoLive == <<>>

LiveMessageOf(acct) ==
    IF acct = "acc1"
    THEN [dialog |-> 1,
          msg |-> Msg(4, "new https://chat.whatsapp.com/FFF", {}, NoReplies, NoFile, Now0)]
    ELSE NoLive

\* the two, tabulated once
Dialogs == [acct \in Accounts |-> DialogsOf(acct)]
LiveMessage == [acct \in Accounts |-> LiveMessageOf(acct)]

\* every message, file, text and button the protocol client can serve
WorldMessages ==
    UNION {UNION {{Dialogs[a][d].messages[m] : m \in DOMAIN Dialogs[a][d].messages} :
                  d \in DOMAIN Dialogs[a]} : a \in Accounts}
    \cup {LiveMessage[a].msg : a \in {b \in Accounts : LiveMessage[b] # NoLive}}

\* download_file_with_progress: MAX_FILE_SIZE = 50 * 1024 * 1024
MAX_FILE_SIZE == 52428800

\* attachments handed to extract_links_from_file on their own: a text file, a
\* rich-text file (supported, no extraction branch), a picture (unsupported),
\* a PDF above MAX_FILE_SIZE, and a text file whose name, which its sender
\* chooses, is an absolute path
TempAttachments ==
    {File("notes.txt", 21, 40, "text/plain", "join https://chat.whatsapp.com/GGG"),
     File("paper.rtf", 22, 30, "application/rtf", "https://chat.whatsapp.com/HHH"),
     File("photo.jpg", 23, 20, "image/jpeg", ""),
     File("big.pdf", 24, MAX_FILE_SIZE + 1, "application/pdf", ""),
     File("/srv/shared.txt", 25, 40, "text/plain", "https://chat.whatsapp.com/GGG")}

WorldFiles == {m.file : m \in {x \in WorldMessages : x.file # NoFile}} \cup TempAttachments

WorldTexts ==
    {m.text : m \in WorldMessages}
    \cup {f.content : f \in WorldFiles}
    \cup UNION {{m.replies.replies[k] : k \in DOMAIN m.replies.replies} :
               m \in {x \in WorldMessages : x.replies # NoReplies}}

WorldButtons == UNION {m.buttons : m \in WorldMessages}

\* the pure functions of link_utils, evaluated once over the world
ScanTable == [t \in WorldTexts |-> ScanText(t)]

ValidTable == [u \in WorldButtons |-> u # "" /\ is_valid_link_for_extraction(u)]

WorldLinks ==
    UNION {ScanTable[t] : t \in WorldTexts} \cup {Strip(u) : u \in WorldButtons}

ClassifyTable == [u \in WorldLinks |-> filter_and_classify_link(u)]

\* extract_links_from_message: message.text or message.message or ""
extract_links_from_message(message) == ScanTable[message.text]

\* extract_buttons_links reads message.reply_markup.rows: AttributeError for a
\* markup without rows
ButtonsRaise(message) == message.markup = "hide"

\* extract_buttons_links: the url of every button of every row
extract_buttons_links(message) ==
    {Strip(l) : l \in {u \in message.buttons : ValidTable[u]}}
(***************************************************************************)
(* file_extractors: identifiers, the processed-files cache, extraction.    *)
(***************************************************************************)
MAX_CACHE_SIZE == 1000
EVICT_BATCH == 100

SUPPORTED_EXTENSIONS == {".pdf", ".docx", ".doc", ".txt", ".rtf", ".odt"}

SUPPORTED_MIMES ==
    {"application/pdf",
     "application/vnd.openxmlformats-officedocument.wordprocessingml.document",
     "application/msword", "text/plain", "application/rtf",
     "application/vnd.oasis.opendocument.text"}

\* os.path.splitext(name)[1]: from the last dot, unless the name starts with it
SplitExt(name) ==
    LET dots == {i \in 2..Len(name) : Ch(name, i) = "."}
    IN  IF dots = {} THEN ""
        ELSE SubSeq(name, CHOOSE i \in dots : \A j \in dots : j <= i, Len(name))

is_file_supported(filename, mime_type) ==
    IF filename = "" THEN FALSE
    ELSE IF SplitExt(Lower(filename)) \in SUPPORTED_EXTENSIONS THEN TRUE
    ELSE mime_type # "" /\ \E m \in SUPPORTED_MIMES : Contains(m, mime_type)

\* f"{filename}_{file_id}_{file_size}", kept as the triple it is built from
get_file_identifier(file) ==
    IF file.name # "" THEN <<Lower(file.name), file.id, file.size>>
    ELSE <<"", file.id, file.size>>

\* hashlib.md5 of the downloaded bytes, kept as the bytes themselves
get_file_hash(file) == file.content

\* _processed_files is a dict: its entries in insertion order
CacheIds(fc) == {fc[i].id : i \in DOMAIN fc}

is_file_already_processed(fc, file_identifier, file_hash) ==
    file_identifier \in CacheIds(fc)

\* the oldest entry taken to be the first inserted, whatever its timestamp
OldestIdx_first_inserted(fc) == 1

\* sorted(keys, key=timestamp): the position of the oldest entry, the
\* earliest inserted among equals (sorted is stable)
OldestIdx(fc) ==
    CHOOSE i \in DOMAIN fc :
        \A j \in DOMAIN fc :
            \/ fc[i].timestamp < fc[j].timestamp
            \/ (fc[i].timestamp = fc[j].timestamp /\ i <= j)

RemoveAt(seq, i) == SubSeq(seq, 1, i - 1) \o SubSeq(seq, i + 1, Len(seq))

RECURSIVE EvictOldest(_, _)
EvictOldest(fc, n) ==
    IF n = 0 \/ fc = <<>> THEN fc ELSE EvictOldest(RemoveAt(fc, OldestIdx(fc)), n - 1)

\* add_to_processed_cache without the clean-up at MAX_CACHE_SIZE
add_to_processed_cache_unbounded(fc, file_identifier, file_hash, links_found, t) ==
    LET entry == [id |-> file_identifier, hash |-> file_hash, timestamp |-> t,
                  links_found |-> links_found]
    IN  IF file_identifier \in CacheIds(fc)
        THEN [i \in DOMAIN fc |-> IF fc[i].id = file_identifier THEN entry ELSE fc[i]]
        ELSE Append(fc, entry)

add_to_processed_cache(fc, file_identifier, file_hash, links_found, t) ==
    LET kept  == IF Len(fc) >= MAX_CACHE_SIZE THEN EvictOldest(fc, EVICT_BATCH) ELSE fc
        entry == [id |-> file_identifier, hash |-> file_hash, timestamp |-> t,
                  links_found |-> links_found]
    IN  IF file_identifier \in CacheIds(kept)
        THEN [i \in DOMAIN kept |-> IF kept[i].id = file_identifier THEN entry ELSE kept[i]]
        ELSE Append(kept, entry)

\* _extract_from_pdf / _docx / _doc / _txt: the same scan of the file's text
ExtractByType(file) ==
    LET ext == SplitExt(Lower(file.name))
    IN  IF \/ ext \in {".pdf", ".docx", ".doc", ".txt"}
           \/ file.mime_type \in {"application/pdf",
                "application/vnd.openxmlformats-officedocument.wordprocessingml.document",
                "application/msword", "text/plain"}
        THEN ScanTable[file.content]
        ELSE {}

\* tempfile.TemporaryDirectory(): mkdtemp makes a directory that did not
\* exist, here the first free name of the temporary root
TempDirNames ==
    <<"/tmp/tmp1", "/tmp/tmp2", "/tmp/tmp3", "/tmp/tmp4", "/tmp/tmp5", "/tmp/tmp6">>

mkdtemp(fs) ==
    TempDirNames[CHOOSE k \in DOMAIN TempDirNames :
                     /\ TempDirNames[k] \notin fs
                     /\ \A j \in 1..(k - 1) : TempDirNames[j] \in fs]

\* os.path.join(tmpdir, filename): an absolute filename discards tmpdir
os_path_join(dir, name) == IF StartsWith(name, "/") THEN name ELSE dir \o "/" \o name

\* TemporaryDirectory.__exit__: shutil.rmtree(tmpdir)
rmtree(fs, dir) == {p \in fs : p # dir /\ ~StartsWith(p, dir \o "/")}

\* filename = message.file.name or "file"
Filename(file) == IF file.name = "" THEN "file" ELSE file.name

\* temp_path = os.path.join(tmpdir, filename)
temp_path(dir, file) == os_path_join(dir, Filename(file))

\* the with block of extract_links_from_file from the end of the download to
\* its exit: download_media has written temp_path when it succeeded, and every
\* way out of the block removes the directory
leave_tmpdir(fs, dir, file, downloaded) ==
    rmtree(IF downloaded THEN fs \cup {temp_path(dir, file)} ELSE fs, dir)

\* the pure functions of file_extractors, evaluated once over the world
FileTable ==
    [f \in WorldFiles |->
        [supported  |-> is_file_supported(IF f.name = "" THEN "file" ELSE f.name, f.mime_type),
         identifier |-> get_file_identifier(f),
         links      |-> ExtractByType(f)]]

(***************************************************************************)
(* The state.                                                              *)
(***************************************************************************)
VARIABLES
    sessions,        \* get_all_sessions(): the configured accounts
    collecting,      \* collector._collecting
    stopEvent,       \* collector._stop_event is set
    processedFiles,  \* collector._processed_files: the "name_size" ids
    fileCache,       \* file_extractors._processed_files, in insertion order
    store,           \* the links table: a bag of rows (the row id is left out)
    now,             \* datetime.now(), in seconds
    starts,          \* the start_collection() tasks, in creation order
    workers,         \* the run_client() tasks, in creation order
    arrived,         \* the accounts whose live message has arrived
    failures,        \* the failures of the protocol client so far
    tempFiles        \* the temporary directories and the downloaded files that exist

vars == <<sessions, collecting, stopEvent, processedFiles, fileCache, store, now, starts, workers,
          arrived, failures, tempFiles>>

(***************************************************************************)
(* database.save_link and the links table.                                 *)
(***************************************************************************)
StoredUrls(rows) == {r.url : r \in BagToSet(rows)}

\* save_link without the look-up and without the UNIQUE constraint
save_link_unchecked(rows, url, platform, source_account, chat_type, chat_id, message_date, source_type, t) ==
    IF url = "" THEN rows
    ELSE rows (+) SetToBag({[url |-> url, platform |-> platform,
                             source_account |-> source_account, chat_type |-> chat_type,
                             chat_id |-> chat_id, message_date |-> message_date,
                             collected_date |-> t, source_type |-> source_type]})

\* SELECT id FROM links WHERE url = ?, then INSERT OR IGNORE under url UNIQUE;
\* collected_date defaults to CURRENT_TIMESTAMP
save_link(rows, url, platform, source_account, chat_type, chat_id, message_date, source_type, t) ==
    IF url = "" THEN rows
    ELSE IF url \in StoredUrls(rows) THEN rows
    ELSE rows (+) SetToBag({[url |-> url, platform |-> platform,
                             source_account |-> source_account, chat_type |-> chat_type,
                             chat_id |-> chat_id, message_date |-> message_date,
                             collected_date |-> t, source_type |-> source_type]})

(***************************************************************************)
(* collector: the per-message pipeline.                                    *)
(***************************************************************************)
WINDOW_DAYS == 60

\* is_within_last_60_days with >= for >
is_within_last_60_days_inclusive(message_date, t) == message_date >= t - WINDOW_DAYS * Day

\* cutoff_date = datetime.now() - timedelta(days=60); message_date > cutoff_date
is_within_last_60_days(message_date, t) == message_date > t - WINDOW_DAYS * Day

\* collector's own is_valid_telegram_link (the one process_links_list sees)
collector_is_valid_telegram_link(link0) ==
    LET link == Strip(Lower(link0))
    IN  IF ~Contains(link, "t.me/") THEN FALSE
        ELSE IF Contains(link, "/bot/") \/ Contains(link, "t.me/bot/") \/ Contains(link, "/invite/")
             THEN FALSE
        ELSE LET path == SplitFirst(SplitFirst(SplitSecond(link, "t.me/"), "?"), "/")
             IN  IF StartsWith(path, "+") /\ Len(path) > 1 THEN TRUE
                 ELSE IsAlnum(RemoveChar(RemoveChar(path, "_"), "-"))

\* ProcessLink without the 60-day rule
ProcessLink_no_window(rows, link, message, account_name, chat_id, source_type, t) ==
    LET classified == ClassifyTable[link]
    IN  IF classified = None THEN rows
        ELSE IF classified[1] = "whatsapp"
             THEN save_link(rows, link, classified[1], account_name, classified[2],
                            chat_id, message.date, source_type, t)
        ELSE rows

\* the body of the loop of process_links_list (and of process_files) for one link
ProcessLink(rows, link, message, account_name, chat_id, source_type, t) ==
    LET classified == ClassifyTable[link]
    IN  IF classified = None THEN rows
        ELSE IF classified[1] = "whatsapp"
             THEN IF ~is_within_last_60_days(message.date, t) THEN rows
                  ELSE save_link(rows, link, classified[1], account_name, classified[2],
                                 chat_id, message.date, source_type, t)
        ELSE IF classified[1] = "telegram"
             THEN IF collector_is_valid_telegram_link(link)
                  THEN save_link(rows, link,
                                 IF StartsWith(link, "t.me/+")
                                 THEN "telegram_invite_with_plus"
                                 ELSE "telegram_invite_without_plus",
                                 account_name, classified[2], chat_id, message.date,
                                 source_type, t)
                  ELSE rows
        ELSE rows

RECURSIVE process_links_list(_, _, _, _, _, _, _)
process_links_list(rows, links, message, account_name, chat_id, source_type, t) ==
    IF links = <<>> THEN rows
    ELSE process_links_list(
             ProcessLink(rows, Head(links), message, account_name, chat_id, source_type, t),
             Tail(links), message, account_name, chat_id, source_type, t)

\* list(set): the orders a set of links can be listed in
Orders(S) ==
    {f \in [1..Cardinality(S) -> S] : \A i, j \in 1..Cardinality(S) : f[i] = f[j] => i = j}

\* hasattr(message, 'replies') and isinstance(...) and replies.comments and replies.replies > 0
HasComments(message) ==
    message.replies # NoReplies /\ message.replies.comments /\ Len(message.replies.replies) > 0

\* what the shared state is after a piece of the pipeline, and where the
\* pipeline is then: suspended on the comments, on the download, or done
Result(rows, pf, fc, phase, failed) ==
    [store |-> rows, pf |-> pf, fc |-> fc, phase |-> phase, failed |-> failed]

\* process_files without "if file_id in _processed_files: return"
process_files_begin_unchecked(rows, pf, fc, message, failed) ==
    IF message.file = NoFile THEN Result(rows, pf, fc, "done", failed)
    ELSE LET file == message.file
             file_id == <<file.name, file.size>>
         IN  IF ~FileTable[file].supported
             THEN Result(rows, pf \cup {file_id}, fc, "done", failed)
             ELSE IF is_file_already_processed(fc, FileTable[file].identifier, "")
                  THEN Result(rows, pf \cup {file_id}, fc, "done", failed)
             ELSE IF file.size > MAX_FILE_SIZE
                  THEN Result(rows, pf \cup {file_id}, fc, "done", failed)
             ELSE Result(rows, pf \cup {file_id}, fc, "download", failed)

\* process_files up to the await of the download inside extract_links_from_file
process_files_begin(rows, pf, fc, message, failed) ==
    IF message.file = NoFile THEN Result(rows, pf, fc, "done", failed)
    ELSE LET file == message.file
             file_id == <<file.name, file.size>>
         IN  IF file_id \in pf THEN Result(rows, pf, fc, "done", failed)
             ELSE IF ~FileTable[file].supported
                  THEN Result(rows, pf \cup {file_id}, fc, "done", failed)
             ELSE IF is_file_already_processed(fc, FileTable[file].identifier, "")
                  THEN Result(rows, pf \cup {file_id}, fc, "done", failed)
             ELSE IF file.size > MAX_FILE_SIZE
                  THEN Result(rows, pf \cup {file_id}, fc, "done", failed)
             ELSE Result(rows, pf \cup {file_id}, fc, "download", failed)

\* process_message up to its first await, or up to the exception that leaves it
\* (phase "raised": nothing in process_message catches it)
process_message_begin(rows, pf, fc, message, account_name, chat_id, t) ==
    IF message.text = "" THEN {Result(rows, pf, fc, "done", FALSE)}
    ELSE {LET rows1 == process_links_list(rows, text_links, message, account_name,
                                          chat_id, "text", t)
              rows2 == process_links_list(rows1, button_links, message, account_name,
                                          chat_id, "button", t)
          IN  IF ButtonsRaise(message)
              THEN Result(rows1, pf, fc, "raised", FALSE)
              ELSE IF HasComments(message)
              THEN Result(rows2, pf, fc, "comments", FALSE)
              ELSE process_files_begin(rows2, pf, fc, message, FALSE) :
          text_links \in Orders(extract_links_from_message(message)),
          button_links \in Orders(extract_buttons_links(message))}

\* the links of the first k replies, each reply's links in some order
RECURSIVE ReplyLinks(_, _)
ReplyLinks(texts, k) ==
    IF k = 0 THEN {<<>>}
    ELSE {pre \o one : pre \in ReplyLinks(texts, k - 1), one \in Orders(ScanTable[texts[k]])}

\* extract_comment_links resumed: the iteration over the replies ends, or
\* raises after k replies (caught: the links read so far are returned); then
\* process_links_list(comment_links) and process_files up to the download
process_message_after_comments(rows, pf, fc, message, account_name, chat_id, t) ==
    {process_files_begin(
         process_links_list(rows, comment_links, message, account_name, chat_id, "comment", t),
         pf, fc, message, raised) :
     comment_links \in ReplyLinks(message.replies.replies, Len(message.replies.replies)),
     raised \in {FALSE}}
    \cup
    {process_files_begin(
         process_links_list(rows, comment_links, message, account_name, chat_id, "comment", t),
         pf, fc, message, raised) :
     comment_links \in UNION {ReplyLinks(message.replies.replies, k) :
                                k \in 0..Len(message.replies.replies)},
     raised \in {TRUE}}

\* extract_links_from_file resumed after the download, and the rest of process_files
process_files_after_download(rows, pf, fc, message, account_name, chat_id, t) ==
    LET file == message.file
        identifier == FileTable[file].identifier
        file_hash == get_file_hash(file)
        links == FileTable[file].links
    IN  {Result(rows, pf, fc, "done", TRUE)}
        \cup
        (IF file_hash # "" /\ is_file_already_processed(fc, identifier, file_hash)
         THEN {Result(rows, pf, fc, "done", FALSE)}
         ELSE {Result(process_links_list(rows, file_links, message, account_name,
                                         chat_id, "file", t),
                      pf,
                      add_to_processed_cache(fc, identifier, file_hash, Cardinality(links), t),
                      "done", FALSE) :
               file_links \in Orders(links)})

(***************************************************************************)
(* collector: the coordinator and the crawl workers.                       *)
(*                                                                         *)
(* A start task is "pending" (created, not yet run), "skipped" (it         *)
(* returned at one of its early returns), "running" (awaiting              *)
(* asyncio.gather), "returned" or "raised".                                *)
(*                                                                         *)
(* A worker's pc is the await its run_client task is suspended at:         *)
(*   connect        await client.connect()                                 *)
(*   dialogs        the first fetch of client.iter_dialogs()               *)
(*   messages       the fetch of message mi of dialog di                   *)
(*   comments       the replies of message mi, in extract_comment_links    *)
(*   download       the attachment of message mi, in download_media        *)
(*   wait           await _stop_event.wait()                               *)
(*   disconnecting  woken by the event, up to await client.disconnect()    *)
(* or how the task ended: disconnected, connect_failed (connect raised),   *)
(* crashed (iter_dialogs raised out of run_client, the client still        *)
(* connected).  hpc is the same for the worker's new_message_handler task: *)
(* idle, pending (notified, not yet run), comments, download, done.        *)
(* stopped is history only: stop_collection() was called while the worker  *)
(* was backfilling.  skipped is history only too: the conversations whose  *)
(* iteration was ended by the except clause of collect_old_messages.       *)
(* tmpdir and htmpdir are the temporary directories of the two tasks while *)
(* they download.  liveRuns is history only: how many times the worker has *)
(* run process_message on the new message of its account.                  *)
(***************************************************************************)
BackfillPcs == {"dialogs", "messages", "comments", "download"}

\* the client is connected: the handler is registered and notifications come
ConnectedPcs == BackfillPcs \cup {"wait", "disconnecting", "crashed"}

NewWorker(acct, start) ==
    [acct |-> acct, start |-> start, pc |-> "connect", di |-> 0, mi |-> 0,
     hpc |-> "idle", stopped |-> FALSE, skipped |-> {}, tmpdir |-> "", htmpdir |-> "",
     liveRuns |-> 0]

\* iter_messages without reverse=True: newest first
History_newest_first(acct, d) ==
    LET h == Dialogs[acct][d].messages
             \o (IF acct \in arrived /\ LiveMessage[acct] # NoLive /\ LiveMessage[acct].dialog = d
                 THEN <<LiveMessage[acct].msg>> ELSE <<>>)
    IN  [k \in 1..Len(h) |-> h[Len(h) + 1 - k]]

\* what iter_messages serves for dialog d of an account, oldest first
History(acct, d) ==
    Dialogs[acct][d].messages
    \o (IF acct \in arrived /\ LiveMessage[acct] # NoLive /\ LiveMessage[acct].dialog = d
        THEN <<LiveMessage[acct].msg>> ELSE <<>>)

\* where run_client is once collect_old_messages has returned: wait() returns
\* at once when the event is set
AfterBackfill == IF stopEvent THEN "disconnecting" ELSE "wait"

\* the worker record on entering dialog d, or on leaving the last one
EnterDialog(wk, d) ==
    IF d > Len(Dialogs[wk.acct])
    THEN [wk EXCEPT !.pc = AfterBackfill, !.di = d, !.mi = 0]
    ELSE [wk EXCEPT !.pc = "messages", !.di = d, !.mi = 1]

Init ==
    /\ sessions \in SessionConfigs
    /\ collecting = FALSE
    /\ stopEvent = FALSE
    /\ processedFiles = {}
    /\ fileCache = <<>>
    /\ store = EmptyBag
    /\ now = Now0
    /\ starts = <<>>
    /\ workers = <<>>
    /\ arrived = {}
    /\ failures = 0
    /\ tempFiles = {}

\* datetime.now() moves on
Tick ==
    /\ now < Now0 + MaxTicks * TickStep
    /\ now' = now + TickStep
    /\ UNCHANGED <<sessions, collecting, stopEvent, processedFiles, fileCache, store, starts, workers, arrived, failures, tempFiles>>

\* bot: the start_collect button, asyncio.create_task(start_collection())
StartCallback ==
    /\ ~collecting
    /\ Len(starts) < MaxStarts
    /\ starts' = Append(starts, "pending")
    /\ UNCHANGED <<sessions, collecting, stopEvent, processedFiles, fileCache, store, now, workers, arrived, failures, tempFiles>>

\* start_collection without "if _collecting: return"
start_collection_unguarded(i) ==
    IF sessions = <<>>
    THEN /\ starts' = [starts EXCEPT ![i] = "skipped"]
         /\ UNCHANGED <<collecting, stopEvent, processedFiles, workers>>
    ELSE /\ collecting' = TRUE
         /\ stopEvent' = FALSE
         /\ processedFiles' = {}
         /\ workers' = workers \o [k \in 1..Len(sessions) |-> NewWorker(sessions[k], i)]
         /\ starts' = [starts EXCEPT ![i] = "running"]

\* start_collection() from its first line up to await asyncio.gather
start_collection(i) ==
    IF collecting \/ sessions = <<>>
    THEN /\ starts' = [starts EXCEPT ![i] = "skipped"]
         /\ UNCHANGED <<collecting, stopEvent, processedFiles, workers>>
    ELSE /\ collecting' = TRUE
         /\ stopEvent' = FALSE
         /\ processedFiles' = {}
         /\ workers' = workers \o [k \in 1..Len(sessions) |-> NewWorker(sessions[k], i)]
         /\ starts' = [starts EXCEPT ![i] = "running"]

\* the event loop runs the oldest pending start task
StartRun ==
    \E i \in DOMAIN starts :
        /\ starts[i] = "pending"
        /\ \A j \in 1..(i - 1) : starts[j] # "pending"
        /\ collecting \/ Len(workers) + Len(sessions) <= MaxWorkers
        /\ start_collection(i)
        /\ UNCHANGED <<sessions, fileCache, store, now, arrived, failures, tempFiles>>

WorkersOf(i) == {w \in DOMAIN workers : workers[w].start = i}

\* await asyncio.gather(*tasks) ends: with the first exception of a worker,
\* or once every worker task has returned
StartFinish ==
    \E i \in DOMAIN starts :
        /\ starts[i] = "running"
        /\ IF \E w \in WorkersOf(i) : workers[w].pc \in {"connect_failed", "crashed"}
           THEN starts' = [starts EXCEPT ![i] = "raised"]
           ELSE /\ \A w \in WorkersOf(i) : workers[w].pc = "disconnected"
                /\ starts' = [starts EXCEPT ![i] = "returned"]
        /\ UNCHANGED <<sessions, collecting, stopEvent, processedFiles, fileCache, store, now, workers, arrived, failures, tempFiles>>

\* stop_collection that clears the flag and leaves the event alone
stop_collection_no_event ==
    /\ collecting' = FALSE
    /\ stopEvent' = stopEvent
    /\ workers' = workers

\* stop_collection(): the flag, and _stop_event.set() which resolves the
\* future of every task waiting on the event
stop_collection ==
    /\ collecting' = FALSE
    /\ stopEvent' = TRUE
    /\ workers' = [w \in DOMAIN workers |->
                     IF workers[w].pc = "wait"
                     THEN [workers[w] EXCEPT !.pc = "disconnecting"]
                     ELSE IF workers[w].pc \in BackfillPcs
                          THEN [workers[w] EXCEPT !.stopped = TRUE]
                          ELSE workers[w]]

\* bot: the stop_collect button
StopCallback ==
    /\ collecting
    /\ stop_collection
    /\ UNCHANGED <<sessions, processedFiles, fileCache, store, now, starts, arrived, failures, tempFiles>>

\* Connect where a failed connect cancels the other workers of the run
Connect_cancels_run(w) ==
    /\ workers[w].pc = "connect"
    /\ \E ok \in {b \in BOOLEAN : b \/ failures < MaxFailures} :
          /\ workers' = [v \in DOMAIN workers |->
                           IF ok
                           THEN IF v = w THEN [workers[v] EXCEPT !.pc = "dialogs"] ELSE workers[v]
                           ELSE IF workers[v].start = workers[w].start
                                THEN [workers[v] EXCEPT !.pc = "connect_failed"]
                                ELSE workers[v]]
          /\ failures' = IF ok THEN failures ELSE failures + 1
    /\ UNCHANGED <<sessions, collecting, stopEvent, processedFiles, fileCache, store, now, starts, arrived, tempFiles>>

\* run_client: await client.connect() returns or raises; on return the
\* handler is registered and collect_old_messages starts
Connect(w) ==
    /\ workers[w].pc = "connect"
    /\ \E ok \in {b \in BOOLEAN : b \/ failures < MaxFailures} :
          /\ workers' = [workers EXCEPT ![w].pc = IF ok THEN "dialogs" ELSE "connect_failed"]
          /\ failures' = IF ok THEN failures ELSE failures + 1
    /\ UNCHANGED <<sessions, collecting, stopEvent, processedFiles, fileCache, store, now, starts, arrived, tempFiles>>

\* collect_old_messages: iter_dialogs fetches the dialogs, or raises (nothing
\* catches it: the exception leaves run_client)
ListDialogs(w) ==
    /\ workers[w].pc = "dialogs"
    /\ \E ok \in {b \in BOOLEAN : b \/ failures < MaxFailures} :
          /\ workers' = [workers EXCEPT ![w] =
                           IF ok THEN EnterDialog(@, 1) ELSE [@ EXCEPT !.pc = "crashed"]]
          /\ failures' = IF ok THEN failures ELSE failures + 1
    /\ UNCHANGED <<sessions, collecting, stopEvent, processedFiles, fileCache, store, now, starts, arrived, tempFiles>>

\* collect_old_messages without its except clause: the exception leaves the
\* backfill and run_client
SkipDialog_uncaught(wk) == [wk EXCEPT !.skipped = @ \cup {wk.di}, !.pc = "crashed"]

\* except Exception in collect_old_messages: the error is logged and the
\* async for over the dialogs takes the next dialog
SkipDialog(wk) == EnterDialog([wk EXCEPT !.skipped = @ \cup {wk.di}], wk.di + 1)

\* iter_messages raises
FetchRaises(w) ==
    /\ workers[w].pc = "messages"
    /\ failures < MaxFailures
    /\ failures' = failures + 1
    /\ workers' = [workers EXCEPT ![w] = SkipDialog(@)]
    /\ UNCHANGED <<sessions, collecting, stopEvent, processedFiles, fileCache, store, now, starts, arrived, tempFiles>>

\* iter_messages is exhausted: the loop takes the next dialog
HistoryExhausted(w) ==
    /\ workers[w].pc = "messages"
    /\ workers[w].mi > Len(History(workers[w].acct, workers[w].di))
    /\ workers' = [workers EXCEPT ![w] = EnterDialog(@, @.di + 1)]
    /\ UNCHANGED <<sessions, collecting, stopEvent, processedFiles, fileCache, store, now, starts, arrived, failures, tempFiles>>

\* a message is served and "if not _collecting: return" leaves the backfill
StopObserved(w) ==
    /\ workers[w].pc = "messages"
    /\ workers[w].mi <= Len(History(workers[w].acct, workers[w].di))
    /\ ~collecting
    /\ workers' = [workers EXCEPT ![w].pc = AfterBackfill]
    /\ UNCHANGED <<sessions, collecting, stopEvent, processedFiles, fileCache, store, now, starts, arrived, failures, tempFiles>>

\* the task of worker w that runs the pipeline: its backfill ("hist") or its
\* new-message handler ("live"); the message and the chat it is working on
TaskMessage(w, task) ==
    IF task = "hist"
    THEN History(workers[w].acct, workers[w].di)[workers[w].mi]
    ELSE LiveMessage[workers[w].acct].msg

TaskChat(w, task) ==
    IF task = "hist"
    THEN Dialogs[workers[w].acct][workers[w].di].chat_id
    ELSE Dialogs[workers[w].acct][LiveMessage[workers[w].acct].dialog].chat_id

TaskPc(w, task) == IF task = "hist" THEN workers[w].pc ELSE workers[w].hpc

\* the pipeline of a task has reached r: the shared state, and the task's pc.
\* A task that suspends on the download is inside the with block of
\* extract_links_from_file, with a new temporary directory; a task that
\* resumes from the download leaves the block
Reach(w, task, r) ==
    LET resumed == TaskPc(w, task) = "download"
        dir     == IF task = "hist" THEN workers[w].tmpdir ELSE workers[w].htmpdir
        newdir  == IF r.phase = "download" THEN mkdtemp(tempFiles) ELSE ""
        begins  == TaskPc(w, task) \in {"messages", "pending"}
        live    == LiveMessage[workers[w].acct]
        wk      == IF begins /\ live # NoLive /\ TaskMessage(w, task) = live.msg
                   THEN [workers[w] EXCEPT !.liveRuns = @ + 1]
                   ELSE workers[w]
    IN  /\ r.failed => failures < MaxFailures
        /\ failures' = IF r.failed THEN failures + 1 ELSE failures
        /\ store' = r.store
        /\ processedFiles' = r.pf
        /\ fileCache' = r.fc
        /\ tempFiles' = IF resumed
                        THEN leave_tmpdir(tempFiles, dir, TaskMessage(w, task).file, ~r.failed)
                        ELSE IF r.phase = "download" THEN tempFiles \cup {newdir}
                        ELSE tempFiles
        /\ workers' = [workers EXCEPT ![w] =
                         IF task = "hist"
                         THEN IF r.phase = "raised" THEN SkipDialog(wk)
                              ELSE [wk EXCEPT !.pc = IF r.phase = "done" THEN "messages" ELSE r.phase,
                                              !.mi = IF r.phase = "done" THEN @ + 1 ELSE @,
                                              !.tmpdir = newdir]
                         ELSE [wk EXCEPT !.hpc = IF r.phase = "raised" THEN "done" ELSE r.phase,
                                         !.htmpdir = newdir]]

\* a message is served while collecting: process_message up to its first await
ProcessHistoryMessage(w) ==
    /\ workers[w].pc = "messages"
    /\ workers[w].mi <= Len(History(workers[w].acct, workers[w].di))
    /\ collecting
    /\ \E r \in process_message_begin(store, processedFiles, fileCache, TaskMessage(w, "hist"),
                                      workers[w].acct, TaskChat(w, "hist"), now) :
          Reach(w, "hist", r)
    /\ UNCHANGED <<sessions, collecting, stopEvent, now, starts, arrived>>

\* the iteration over the replies has ended or raised
CommentsDone(w) ==
    \E task \in {"hist", "live"} :
        /\ TaskPc(w, task) = "comments"
        /\ \E r \in process_message_after_comments(store, processedFiles, fileCache,
                        TaskMessage(w, task), workers[w].acct, TaskChat(w, task), now) :
              Reach(w, task, r)
        /\ UNCHANGED <<sessions, collecting, stopEvent, now, starts, arrived>>

\* the download has ended or failed
DownloadDone(w) ==
    \E task \in {"hist", "live"} :
        /\ TaskPc(w, task) = "download"
        /\ \E r \in process_files_after_download(store, processedFiles, fileCache,
                        TaskMessage(w, task), workers[w].acct, TaskChat(w, task), now) :
              Reach(w, task, r)
        /\ UNCHANGED <<sessions, collecting, stopEvent, now, starts, arrived>>

\* run_client: await client.disconnect() returns and the task ends
Disconnect(w) ==
    /\ workers[w].pc = "disconnecting"
    /\ workers' = [workers EXCEPT ![w].pc = "disconnected"]
    /\ UNCHANGED <<sessions, collecting, stopEvent, processedFiles, fileCache, store, now, starts, arrived, failures, tempFiles>>

\* a new message arrives for an account: it joins the history, and every
\* connected client of the account is notified
Arrive(acct) ==
    /\ acct \notin arrived
    /\ LiveMessage[acct] # NoLive
    /\ arrived' = arrived \cup {acct}
    /\ workers' = [w \in DOMAIN workers |->
                     IF workers[w].acct = acct /\ workers[w].pc \in ConnectedPcs
                     THEN [workers[w] EXCEPT !.hpc = "pending"]
                     ELSE workers[w]]
    /\ UNCHANGED <<sessions, collecting, stopEvent, processedFiles, fileCache, store, now, starts, failures, tempFiles>>

\* new_message_handler without "if not _collecting: return"
new_message_handler_ungated(w) ==
    /\ workers[w].hpc = "pending"
    /\ \E r \in process_message_begin(store, processedFiles, fileCache,
                      TaskMessage(w, "live"), workers[w].acct, TaskChat(w, "live"), now) :
            Reach(w, "live", r)
    /\ UNCHANGED <<sessions, collecting, stopEvent, now, starts, arrived>>

\* new_message_handler: "if not _collecting: return", else process_message up
\* to its first await
new_message_handler(w) ==
    /\ workers[w].hpc = "pending"
    /\ IF ~collecting
       THEN /\ workers' = [workers EXCEPT ![w].hpc = "done"]
            /\ UNCHANGED <<store, processedFiles, fileCache, failures, tempFiles>>
       ELSE \E r \in process_message_begin(store, processedFiles, fileCache,
                         TaskMessage(w, "live"), workers[w].acct, TaskChat(w, "live"), now) :
               Reach(w, "live", r)
    /\ UNCHANGED <<sessions, collecting, stopEvent, now, starts, arrived>>

Next ==
    \/ Tick
    \/ StartCallback
    \/ StartRun
    \/ StartFinish
    \/ StopCallback
    \/ \E acct \in Accounts : Arrive(acct)
    \/ \E w \in DOMAIN workers : Connect(w)
    \/ \E w \in DOMAIN workers : ListDialogs(w)
    \/ \E w \in DOMAIN workers : FetchRaises(w)
    \/ \E w \in DOMAIN workers : HistoryExhausted(w)
    \/ \E w \in DOMAIN workers : StopObserved(w)
    \/ \E w \in DOMAIN workers : ProcessHistoryMessage(w)
    \/ \E w \in DOMAIN workers : CommentsDone(w)
    \/ \E w \in DOMAIN workers : DownloadDone(w)
    \/ \E w \in DOMAIN workers : Disconnect(w)
    \/ \E w \in DOMAIN workers : new_message_handler(w)

Spec == Init /\ [][Next]_vars

(***************************************************************************)
(* The 60-day rule on its own: process_links_list applied to one link of a *)
(* message of a given age, the ages around the cut-off.                    *)
(***************************************************************************)
MaxWindowTicks == 1

WindowAges == {59 * Day, 60 * Day - 1, 60 * Day, 60 * Day + 1, 61 * Day}

WindowLinks == {u \in WorldLinks : ClassifyTable[u] # None}

WindowInit ==
    /\ sessions = <<>>
    /\ collecting = FALSE
    /\ stopEvent = FALSE
    /\ processedFiles = {}
    /\ fileCache = <<>>
    /\ store = EmptyBag
    /\ now = Now0
    /\ starts = <<>>
    /\ workers = <<>>
    /\ arrived = {}
    /\ failures = 0
    /\ tempFiles = {}

WindowProcess ==
    /\ \E age \in WindowAges, link \in WindowLinks :
          store' = process_links_list(store, <<link>>,
                                      Msg(1, "m", {}, NoReplies, NoFile, now - age),
                                      "acc1", "c1", "text", now)
    /\ UNCHANGED <<sessions, collecting, stopEvent, processedFiles, fileCache, now, starts, workers, arrived, failures, tempFiles>>

WindowTick ==
    /\ now < Now0 + MaxWindowTicks
    /\ now' = now + 1
    /\ UNCHANGED <<sessions, collecting, stopEvent, processedFiles, fileCache, store, starts, workers, arrived, failures, tempFiles>>

WindowNext == WindowProcess \/ WindowTick

WindowSpec == WindowInit /\ [][WindowNext]_vars

(***************************************************************************)
(* The document cache of file_extractors on its own: record, seen and      *)
(* clear, on a cache that is empty or filled up to its capacity.           *)
(***************************************************************************)
MaxCacheTicks == 1

CacheFills == {0, MAX_CACHE_SIZE - 1, MAX_CACHE_SIZE}

\* the identifier of a document: name, id and size
DocId(i) == <<"doc.txt", i, 10>>

\* the cache after n documents were recorded one after the other
Prefilled(n) ==
    [i \in 1..n |-> [id |-> DocId(i), hash |-> "h", timestamp |-> Now0 - n + i - 1,
                     links_found |-> 0]]

\* the documents recorded or looked up: the oldest, the newest, two new ones
CacheDocs == {DocId(1), DocId(MAX_CACHE_SIZE), DocId(MAX_CACHE_SIZE + 1), DocId(MAX_CACHE_SIZE + 2)}

CacheInit ==
    /\ sessions = <<>>
    /\ collecting = FALSE
    /\ stopEvent = FALSE
    /\ processedFiles = {}
    /\ fileCache \in {Prefilled(n) : n \in CacheFills}
    /\ store = EmptyBag
    /\ now = Now0
    /\ starts = <<>>
    /\ workers = <<>>
    /\ arrived = {}
    /\ failures = 0
    /\ tempFiles = {}

CacheRecord ==
    /\ \E id \in CacheDocs : fileCache' = add_to_processed_cache(fileCache, id, "h", 0, now)
    /\ UNCHANGED <<sessions, collecting, stopEvent, processedFiles, store, now, starts, workers, arrived, failures, tempFiles>>

\* is_file_already_processed only reads the cache
CacheSeen ==
    /\ \E id \in CacheDocs : is_file_already_processed(fileCache, id, "h") \in BOOLEAN
    /\ UNCHANGED vars

CacheClear ==
    /\ fileCache # <<>>
    /\ fileCache' = <<>>
    /\ UNCHANGED <<sessions, collecting, stopEvent, processedFiles, store, now, starts, workers, arrived, failures, tempFiles>>

CacheTick ==
    /\ now < Now0 + MaxCacheTicks
    /\ now' = now + 1
    /\ UNCHANGED <<sessions, collecting, stopEvent, processedFiles, fileCache, store, starts, workers, arrived, failures, tempFiles>>

CacheNext == CacheRecord \/ CacheSeen \/ CacheClear \/ CacheTick

CacheSpec == CacheInit /\ [][CacheNext]_vars

(***************************************************************************)
(* extract_links_from_file on its own: calls on the attachments of          *)
(* TempAttachments, each suspended on its download or returned.  In this   *)
(* specification `workers` holds the calls, in the order they were made.    *)
(***************************************************************************)
MaxTempTasks == 3

TempInit ==
    /\ sessions = <<>>
    /\ collecting = FALSE
    /\ stopEvent = FALSE
    /\ processedFiles = {}
    /\ fileCache = <<>>
    /\ store = EmptyBag
    /\ now = Now0
    /\ starts = <<>>
    /\ workers = <<>>
    /\ arrived = {}
    /\ failures = 0
    /\ tempFiles = {}

\* a call of extract_links_from_file: the attachment, where the call is
\* ("download" or "returned"), its temporary directory, the return statement
\* it left by, and the number of links it extracted
TempTask(file, pc, dir, exit, n) ==
    [file |-> file, pc |-> pc, tmpdir |-> dir, exit |-> exit, links |-> n]

\* extract_links_from_file up to the await of the download: the early returns
\* for an unsupported or already processed attachment; the directory is made,
\* and removed at once when download_file_with_progress refuses the size
TempCall ==
    /\ Len(workers) < MaxTempTasks
    /\ \E file \in TempAttachments :
          IF ~FileTable[file].supported
          THEN /\ workers' = Append(workers, TempTask(file, "returned", "", "unsupported", 0))
               /\ tempFiles' = tempFiles
          ELSE IF is_file_already_processed(fileCache, FileTable[file].identifier, "")
          THEN /\ workers' = Append(workers, TempTask(file, "returned", "", "processed", 0))
               /\ tempFiles' = tempFiles
          ELSE LET dir == mkdtemp(tempFiles)
               IN  IF file.size > MAX_FILE_SIZE
                   THEN /\ workers' = Append(workers,
                                             TempTask(file, "returned", "", "not_downloaded", 0))
                        /\ tempFiles' = leave_tmpdir(tempFiles \cup {dir}, dir, file, FALSE)
                   ELSE /\ workers' = Append(workers, TempTask(file, "download", dir, "", 0))
                        /\ tempFiles' = tempFiles \cup {dir}
    /\ UNCHANGED <<sessions, collecting, stopEvent, processedFiles, fileCache, store, now, starts, arrived, failures>>

\* the download ends: it failed, or the file is there, is looked up again by
\* its hash, parsed (a parser that fails yields no link) and recorded; every
\* way out leaves the with block
TempDownloadDone ==
    \E t \in DOMAIN workers : \E downloaded \in BOOLEAN : \E parsed \in BOOLEAN :
        LET file == workers[t].file
            identifier == FileTable[file].identifier
            file_hash == get_file_hash(file)
            links == IF parsed THEN FileTable[file].links ELSE {}
            seen == file_hash # "" /\ is_file_already_processed(fileCache, identifier, file_hash)
        IN  /\ workers[t].pc = "download"
            /\ downloaded \/ ~parsed
            /\ workers' = [workers EXCEPT ![t] =
                             IF ~downloaded
                             THEN TempTask(file, "returned", "", "not_downloaded", 0)
                             ELSE IF seen
                             THEN TempTask(file, "returned", "", "processed_by_hash", 0)
                             ELSE TempTask(file, "returned", "", "extracted", Cardinality(links))]
            /\ tempFiles' = leave_tmpdir(tempFiles, workers[t].tmpdir, file, downloaded)
            /\ fileCache' =
                  IF ~downloaded \/ seen
                  THEN fileCache
                  ELSE add_to_processed_cache(fileCache, identifier, file_hash,
                                              Cardinality(links), now)
            /\ UNCHANGED <<sessions, collecting, stopEvent, processedFiles, store, now, starts, arrived, failures>>

TempNext == TempCall \/ TempDownloadDone

TempSpec == TempInit /\ [][TempNext]_vars

(***************************************************************************)
(* The comment extractor of the per-message pipeline on its own:           *)
(* process_message calls extract_comment_links, which iterates over the    *)
(* replies of the message one fetch at a time.  In this specification      *)
(* `workers` holds the calls.                                              *)
(***************************************************************************)
MaxCommentCalls == 1

\* limit=100 and limit=50 of extract_comments_links, the extractor that
\* process_message does not call
COMMENT_LIMIT == 100
NESTED_LIMIT == 50

\* iter_messages without limit=: every message is served
NoLimit == -1

\* how many of `total` messages iter_messages(limit) serves
Served(total, limit) ==
    IF limit = NoLimit \/ total <= limit THEN total ELSE limit

\* the numbers of top-level replies a thread can hold
ThreadSizes == {0, 1, COMMENT_LIMIT, COMMENT_LIMIT + 1}

CommentInit ==
    /\ sessions = <<>>
    /\ collecting = FALSE
    /\ stopEvent = FALSE
    /\ processedFiles = {}
    /\ fileCache = <<>>
    /\ store = EmptyBag
    /\ now = Now0
    /\ starts = <<>>
    /\ workers = <<>>
    /\ arrived = {}
    /\ failures = 0
    /\ tempFiles = {}

\* process_message: comment_links = await extract_comment_links(...) on a
\* message whose thread holds n replies, each with its own replies
CommentCall ==
    /\ Len(workers) < MaxCommentCalls
    /\ \E n \in ThreadSizes :
          workers' = Append(workers, [replies |-> n,
                                      pc |-> IF n > 0 THEN "comments" ELSE "returned",
                                      read |-> 0, nested |-> 0])
    /\ UNCHANGED <<sessions, collecting, stopEvent, processedFiles, fileCache, store, now, starts, arrived, failures, tempFiles>>

\* async for reply in client.iter_messages(chat_id, reply_to=message.id): the
\* next reply is served and scanned; its own replies are not asked for
CommentFetch ==
    /\ \E c \in DOMAIN workers :
          /\ workers[c].pc = "comments"
          /\ workers[c].read < Served(workers[c].replies, NoLimit)
          /\ workers' = [workers EXCEPT ![c].read = @ + 1]
    /\ UNCHANGED <<sessions, collecting, stopEvent, processedFiles, fileCache, store, now, starts, arrived, failures, tempFiles>>

\* the iteration is exhausted, or raises (caught): return links
CommentReturn ==
    /\ \E c \in DOMAIN workers : \E raised \in BOOLEAN :
          /\ workers[c].pc = "comments"
          /\ raised \/ workers[c].read = Served(workers[c].replies, NoLimit)
          /\ workers' = [workers EXCEPT ![c].pc = "returned"]
    /\ UNCHANGED <<sessions, collecting, stopEvent, processedFiles, fileCache, store, now, starts, arrived, failures, tempFiles>>

CommentNext == CommentCall \/ CommentFetch \/ CommentReturn

CommentSpec == CommentInit /\ [][CommentNext]_vars

(***************************************************************************)
(* The classification policy on its own: filter_and_classify_link applied  *)
(* to URL strings.  In this specification `workers` holds the last call:   *)
(* the URL and what the function returned.                                 *)
(***************************************************************************)
MaxSegmentLen == 3

\* the characters a path is built from: a letter in each case, a digit, the
\* two marks a word may hold, and the marks that start an invite, a further
\* segment and a query
SegmentChars == {"a", "Z", "7", "_", "-", "+", "/", "?"}

RECURSIVE Paths(_)
Paths(k) ==
    IF k = 0 THEN {""}
    ELSE Paths(k - 1) \cup {s \o c : s \in Paths(k - 1), c \in SegmentChars}

\* the first n digits of 1234567890123...
RECURSIVE Digits(_)
Digits(n) == IF n = 0 THEN "" ELSE Digits(n - 1) \o Ch(DigitChars, (n % 10) + 1)

\* + followed by n digits, for n around the two ends of the phone rule
PhoneLens == 5..14

ClassifyUrls ==
    {"https://t.me/" \o path : path \in Paths(MaxSegmentLen)}
    \cup {"https://t.me/+" \o Digits(n) : n \in PhoneLens}
    \cup {"https://t.me/+abcdef123", "https://t.me/mychannel", "https://t.me/+15551234567",
          "https://t.me/bot/xyz", "https://t.me/botfather", "https://t.me/user/42",
          "https://t.me/invite/abc", "https://t.me/abc/invite/x", "https://t.me/music",
          "https://t.me/abc?x=c/", "https://t.me/abc?ref=channel/",
          "http://t.me/+AbC_-d", "HTTPS://T.ME/Abc", "https://telegram.me/abc",
          "t.me/+abcdef123", "t.me/mychannel", "www.t.me/abc",
          "https://chat.whatsapp.com/ABC123", "https://wa.me/15551234567",
          "chat.whatsapp.com/ABC123", "https://whatsapp.com/about", "https://example.com", ""}

ClassifyInit ==
    /\ sessions = <<>>
    /\ collecting = FALSE
    /\ stopEvent = FALSE
    /\ processedFiles = {}
    /\ fileCache = <<>>
    /\ store = EmptyBag
    /\ now = Now0
    /\ starts = <<>>
    /\ workers = <<>>
    /\ arrived = {}
    /\ failures = 0
    /\ tempFiles = {}

\* filter_and_classify_link, evaluated once over ClassifyUrls
ClassifyUrlTable == [url \in ClassifyUrls |-> filter_and_classify_link(url)]

\* classified = filter_and_classify_link(link)
ClassifyCall ==
    /\ \E url \in ClassifyUrls :
          workers' = <<[url |-> url, result |-> ClassifyUrlTable[url]]>>
    /\ UNCHANGED <<sessions, collecting, stopEvent, processedFiles, fileCache, store, now, starts, arrived, failures, tempFiles>>

ClassifyNext == ClassifyCall

ClassifySpec == ClassifyInit /\ [][ClassifyNext]_vars

(***************************************************************************)
(* Properties.                                                             *)
(***************************************************************************)
WA(code) == "https://chat.whatsapp.com/" \o code

\* worker w has been through message k of dialog d (processed or skipped it)
Passed(w, d, k) ==
    \/ workers[w].di > d
    \/ workers[w].di = d /\ workers[w].mi > k /\ workers[w].pc \in BackfillPcs

\* every link a message shows to the four extractors
MessageLinks(m) ==
    extract_links_from_message(m)
    \cup extract_buttons_links(m)
    \cup (IF HasComments(m)
          THEN UNION {ScanTable[m.replies.replies[k]] : k \in DOMAIN m.replies.replies}
          ELSE {})
    \cup (IF m.file # NoFile /\ FileTable[m.file].supported THEN FileTable[m.file].links ELSE {})

\* the links of a set that classify accepts, a WhatsApp link only inside the
\* window of its message at time t
Persistable(links, m, t) ==
    {u \in links : /\ ClassifyTable[u] # None
                   /\ (ClassifyTable[u][1] = "whatsapp" => is_within_last_60_days(m.date, t))}

\* C1: every URL has at most one row in the link store, whatever the number
\* of workers, their interleaving and the sources the URL was seen in.
C1_OneRowPerUrl ==
    \A r1 \in BagToSet(store) :
        /\ CopiesIn(r1, store) = 1
        /\ \A r2 \in BagToSet(store) : r1.url = r2.url => r1 = r2

\* two accounts have both been through a message that shows the same link
\* inside its window, and the link is stored
C1_Witness ==
    /\ sessions = <<"acc1", "acc2">>
    /\ failures = 0
    /\ now = Now0
    /\ Len(workers) = 2
    /\ Passed(1, 2, 1)
    /\ Passed(2, 1, 1)
    /\ WA("CCC") \in StoredUrls(store)

\* C2: once a worker has backfilled a conversation without failure and
\* without a stop, every link of the conversation's messages that classify
\* accepts (a WhatsApp link inside the window) is in the link store.
C2_BackfilledLinksStored ==
    \A w \in DOMAIN workers :
        \A d \in DOMAIN Dialogs[workers[w].acct] :
            (failures = 0 /\ workers[w].di > d)
            => \A k \in DOMAIN Dialogs[workers[w].acct][d].messages :
                  LET m == Dialogs[workers[w].acct][d].messages[k]
                  IN  Persistable(MessageLinks(m), m, now) \subseteq StoredUrls(store)

\* C3: every row of the link store is a classified link: classify accepts its
\* URL, its platform is the subtype classify returned, and a whatsapp row was
\* saved while its message was inside the 60-day window.
C3_RowsAreClassified ==
    \A r \in BagToSet(store) :
        /\ r.url \in DOMAIN ClassifyTable
        /\ ClassifyTable[r.url] # None
        /\ r.platform = ClassifyTable[r.url][1]
        /\ r.platform \in {"whatsapp", "telegram_invite_with_plus", "telegram_invite_without_plus"}
        /\ (r.platform = "whatsapp"
            => r.message_date > r.collected_date - WINDOW_DAYS * Day)

\* a worker went through a message whose WhatsApp links had left the window
\* and stored none of them, while a later message's link was stored
C3_Witness ==
    /\ now > Now0
    /\ failures = 0
    /\ \E w \in DOMAIN workers : workers[w].acct = "acc1" /\ Passed(w, 2, 1)
    /\ StoredUrls(store) = {WA("FFF")}

\* C4: a message with no display text that carries a button or an attachment
\* still has its button and file links extracted and classified, so those the
\* pipeline persists (WhatsApp group links inside the window) are stored once
\* the message has been through the pipeline.
C4_TextlessMessageExtracted ==
    \A w \in DOMAIN workers :
        \A d \in DOMAIN Dialogs[workers[w].acct] :
            \A k \in DOMAIN Dialogs[workers[w].acct][d].messages :
                LET m == Dialogs[workers[w].acct][d].messages[k]
                    links == {u \in MessageLinks(m) : ClassifyTable[u] # None
                                                      /\ ClassifyTable[u][1] = "whatsapp"}
                IN  (failures = 0 /\ m.text = "" /\ Passed(w, d, k))
                    => Persistable(links, m, now) \subseteq StoredUrls(store)

\* C5: when start() returns, every worker it spawned is still connected in
\* the Listening state; it returns without stop() having been called.
C5_StartReturnsWhileListening ==
    [][\A i \in DOMAIN starts :
          (starts[i] = "running" /\ starts'[i] = "returned")
          => \A w \in WorkersOf(i) : workers[w].pc = "wait"]_vars

\* C6: a worker's new-message handler runs the pipeline only once the
\* worker's backfill has ended.
C6_HandlerOnlyAfterBackfill ==
    [][\A w \in DOMAIN workers :
          (workers[w].hpc = "pending" /\ workers'[w].hpc # "pending" /\ collecting)
          => workers[w].pc \notin BackfillPcs]_vars

\* worker w takes up a history message in this step
TakesUpHistoryMessage(w) ==
    /\ workers[w].pc = "messages"
    /\ workers'[w].di = workers[w].di
    /\ \/ workers'[w].pc \in {"comments", "download"}
       \/ workers'[w].mi = workers[w].mi + 1

\* C7: a worker that was backfilling when stop() was called takes up no
\* further history message.
C7_NoMessageAfterStop ==
    [][\A w \in DOMAIN workers : workers[w].stopped => ~TakesUpHistoryMessage(w)]_vars

\* C8: a worker that has connected reaches Disconnected after stop(): once
\* collection is stopped, no worker task has ended with its client still
\* connected.
C8_StoppedWorkerDisconnects ==
    \A w \in DOMAIN workers : ~collecting => workers[w].pc # "crashed"

\* C9: stop() clears collecting and sets the stop event in the same step,
\* leaves the link store and both document caches as they are, and no worker
\* is disconnected by the time it returns.
C9_StopEffect ==
    [][(collecting /\ ~collecting')
       => /\ stopEvent'
          /\ store' = store
          /\ fileCache' = fileCache
          /\ processedFiles' = processedFiles
          /\ \A w \in DOMAIN workers :
                workers'[w].pc = "disconnected" => workers[w].pc = "disconnected"]_vars

\* stop() has returned: rows and cache entries are still there and a worker
\* is still connected
C9_Witness ==
    /\ ~collecting
    /\ stopEvent
    /\ store # EmptyBag
    /\ fileCache # <<>>
    /\ \E w \in DOMAIN workers : workers[w].pc \in BackfillPcs \cup {"disconnecting"}

\* C10: a start() that runs while collecting is true changes nothing: no
\* worker is spawned, the stop event, the caches and the store stay as they
\* are; workers are spawned only by a start() that found collecting false,
\* one per configured account.
C10_StartWhileCollectingIsNoop ==
    [][/\ \A i \in DOMAIN starts :
             (collecting /\ starts[i] = "pending" /\ starts'[i] # "pending")
             => /\ starts'[i] = "skipped"
                /\ UNCHANGED <<collecting, stopEvent, processedFiles, fileCache, store, workers>>
       /\ (collecting => Len(workers') = Len(workers))
       /\ (Len(workers') > Len(workers)
           => [k \in 1..Len(sessions) |-> workers'[Len(workers) + k].acct] = sessions)]_vars

\* two overlapping start requests have both run: one was skipped, and there
\* is one worker per configured account
C10_Witness ==
    /\ collecting
    /\ sessions = <<"acc1", "acc2">>
    /\ \E i \in DOMAIN starts : starts[i] = "skipped"
    /\ Len(workers) = Len(sessions)

\* C11: a start() that begins a run clears the document cache the file
\* extractor consults: right after it no document identifier is reported as
\* seen.
C11_StartClearsFileCache ==
    [][(~collecting /\ collecting')
       => \A f \in WorldFiles :
             ~is_file_already_processed(fileCache', FileTable[f].identifier, "")]_vars

\* C12: a new-message handler that starts while collecting is false returns at
\* once: no write to the link store, no entry in either document cache, no
\* download or comment fetch begun.
C12_HandlerGated ==
    [][\A w \in DOMAIN workers :
          (workers[w].hpc = "pending" /\ workers'[w].hpc # "pending" /\ ~collecting)
          => /\ workers'[w].hpc = "done"
             /\ UNCHANGED <<store, fileCache, processedFiles, failures>>]_vars

\* a notification was handled after stop(): the handler is done and the link
\* of the new message is not stored
C12_Witness ==
    /\ ~collecting
    /\ "acc1" \in arrived
    /\ \E w \in DOMAIN workers : workers[w].hpc = "done" /\ workers[w].acct = "acc1"
    /\ WA("FFF") \notin StoredUrls(store)
    /\ store # EmptyBag

\* C13: a worker's backfill moves through its conversations one by one, on to
\* the next only from between two messages, and through the messages of a
\* conversation one by one in the order served, which is oldest first.
C13_BackfillInOrder ==
    [][\A w \in DOMAIN workers :
          LET a == workers[w]
              b == workers'[w]
          IN  /\ b.di \in {a.di, a.di + 1}
              /\ (b.di = a.di => b.mi \in {a.mi, a.mi + 1})
              /\ (b.di = a.di + 1 => (a.pc \in {"dialogs", "messages"} /\ b.mi \in {0, 1}))
              /\ (b.mi # a.mi => a.pc \in {"dialogs", "messages", "comments", "download"})
              /\ ((b.di = a.di /\ b.mi = a.mi + 1 /\ b.mi <= Len(History(a.acct, a.di)))
                  => History(a.acct, a.di)[a.mi].date <= History(a.acct, a.di)[b.mi].date)]_vars

\* a worker is in its second conversation, past its first message
C13_Witness ==
    \E w \in DOMAIN workers :
        workers[w].di = 2 /\ workers[w].mi = 2 /\ workers[w].pc = "messages"

\* C14: a failure raised while a conversation is read is caught: the worker
\* takes the next conversation or, after the last, waits for stop; a worker
\* task ends by an exception only at the listing of the conversations.
C14_ConversationFailureSkipped ==
    [][\A w \in DOMAIN workers :
          /\ (workers'[w].skipped # workers[w].skipped)
             => /\ workers'[w].skipped = workers[w].skipped \cup {workers[w].di}
                /\ workers'[w].di = workers[w].di + 1
                /\ workers'[w].pc = IF workers'[w].di > Len(Dialogs[workers[w].acct])
                                    THEN (IF stopEvent THEN "disconnecting" ELSE "wait")
                                    ELSE "messages"
          /\ (workers'[w].pc = "crashed" /\ workers[w].pc # "crashed")
             => workers[w].pc = "dialogs"]_vars

\* the fetch of the first conversation failed, and the worker has read the
\* second one and is listening
C14_Witness ==
    \E w \in DOMAIN workers :
        /\ 1 \in workers[w].skipped
        /\ workers[w].pc = "wait"
        /\ WA("CCC") \in StoredUrls(store)

\* C15: a failure raised while one history message is processed skips that
\* message only: the worker goes on with the next message of the conversation.
C15_MessageFailureSkipsMessage ==
    [][\A w \in DOMAIN workers :
          LET a == workers[w]
              b == workers'[w]
          IN  (/\ a.pc = "messages"
               /\ collecting
               /\ a.mi <= Len(History(a.acct, a.di))
               /\ History(a.acct, a.di)[a.mi].text # ""
               /\ ButtonsRaise(History(a.acct, a.di)[a.mi])
               /\ failures' = failures
               /\ <<b.pc, b.di, b.mi>> # <<a.pc, a.di, a.mi>>)
              => (b.di = a.di /\ b.mi = a.mi + 1 /\ b.pc = "messages")]_vars

\* C16: a worker whose connect fails does nothing further (no backfill, no
\* handler, no row), and the failing step leaves every other worker, the
\* flag, the stop event, the store and the caches as they are.
C16_ConnectFailureIsolated ==
    [][\A w \in DOMAIN workers :
          /\ (workers[w].pc = "connect" /\ workers'[w].pc = "connect_failed")
             => /\ \A v \in DOMAIN workers : v # w => workers'[v] = workers[v]
                /\ workers'[w] = [workers[w] EXCEPT !.pc = "connect_failed"]
                /\ UNCHANGED <<store, fileCache, processedFiles, collecting, stopEvent>>
          /\ (workers'[w].pc = "connect_failed") => workers[w].pc \in {"connect", "connect_failed"}
          /\ (workers[w].pc = "connect_failed") => workers'[w] = workers[w]]_vars

\* one worker failed to connect; the other of the same run completed its
\* backfill, stored its links and disconnected on stop
C16_Witness ==
    /\ Len(workers) = 2
    /\ workers[1].pc = "connect_failed"
    /\ workers[2].start = workers[1].start
    /\ workers[2].pc = "disconnected"
    /\ workers[2].di = Len(Dialogs[workers[2].acct]) + 1
    /\ WA("CCC") \in StoredUrls(store)

\* C17: start() never ends with an error because of a worker.
C17_StartNeverRaises ==
    \A i \in DOMAIN starts : starts[i] # "raised"

\* C18: when the fetch of a message's comments fails, the comment extractor
\* yields no links (no row of source comment is added) and the message goes on
\* to its file links, the conversation is not skipped.
C18_CommentFailureIsolated ==
    [][\A w \in DOMAIN workers :
          (workers[w].pc = "comments" /\ workers'[w].pc # "comments" /\ failures' = failures + 1)
          => /\ \A r \in BagToSet(store') : r.source_type = "comment" => r \in BagToSet(store)
             /\ workers'[w].di = workers[w].di
             /\ workers'[w].pc \in {"download", "messages"}]_vars

\* C19: a WhatsApp link is stored only if its message is strictly less than
\* 60 days old at the moment it is evaluated: messages 60 days, 60 days and
\* one second, and 61 days old are rejected, messages 59 days and 60 days
\* less one second old are accepted; a row of another platform is under no
\* such rule.
C19_WindowStrict ==
    /\ \A age \in WindowAges :
          is_within_last_60_days(now - age, now) <=> age < WINDOW_DAYS * Day
    /\ \A r \in BagToSet(store) :
          r.platform = "whatsapp"
          => r.collected_date - r.message_date \in {59 * Day, 60 * Day - 1}

\* links of a message 59 days old and of a message one second inside the
\* window are stored
C19_Witness ==
    /\ \E r \in BagToSet(store) : r.collected_date - r.message_date = 59 * Day
    /\ \E r \in BagToSet(store) : r.collected_date - r.message_date = 60 * Day - 1

\* C20: the document cache never holds more than MAX_CACHE_SIZE entries,
\* whatever records, look-ups and clears were made.
C20_CacheBounded == Len(fileCache) <= MAX_CACHE_SIZE

\* a record on a full cache has evicted a batch and added its entry
C20_Witness ==
    /\ Len(fileCache) = MAX_CACHE_SIZE - EVICT_BATCH + 1
    /\ DocId(MAX_CACHE_SIZE + 1) \in CacheIds(fileCache)

\* the entries of a cache, as a set
CacheEntries(fc) == {fc[i] : i \in DOMAIN fc}

\* C21: a record on a cache at capacity removes exactly the oldest tenth of
\* the capacity by timestamp (no evicted entry is newer than a surviving
\* one), removes before it inserts, leaves the recorded identifier in the
\* cache and the size at or below capacity.  Stated of the record of each
\* document on each cache at capacity the program reaches.  The survivors
\* are the old entries found unchanged in the new cache; the evicted are
\* those whose identifier is gone, or was removed and then recorded again at
\* the end.
C21_EvictsOldestTenth ==
    \A r \in CacheDocs :
        Len(fileCache) >= MAX_CACHE_SIZE
        => LET old == fileCache
               new == add_to_processed_cache(old, r, "h", 0, now)
               newEntries == CacheEntries(new)
               newIds == CacheIds(new)
               last == new[Len(new)]
               reinserted == Len(new) = Len(old) - EVICT_BATCH + 1
               survivors == {i \in DOMAIN old : old[i] \in newEntries}
               evicted == {i \in DOMAIN old :
                              \/ old[i].id \notin newIds
                              \/ (reinserted /\ old[i].id = last.id /\ old[i] # last)}
               newestEvicted == CHOOSE i \in evicted :
                                    \A k \in evicted : old[k].timestamp <= old[i].timestamp
           IN  /\ EVICT_BATCH * 10 = MAX_CACHE_SIZE
               /\ Cardinality(evicted) = EVICT_BATCH
               /\ \A j \in survivors : old[newestEvicted].timestamp <= old[j].timestamp
               /\ Cardinality(DOMAIN old \ (evicted \cup survivors)) <= 1
               /\ Len(new) \in {Len(old) - EVICT_BATCH, Len(old) - EVICT_BATCH + 1}
               /\ Len(new) <= MAX_CACHE_SIZE
               /\ \E i \in DOMAIN new : new[i].id = r /\ new[i].timestamp = now

\* an eviction has passed over the first inserted entry, which had been
\* refreshed, and removed the entries older than it
C21_Witness ==
    /\ Len(fileCache) = MAX_CACHE_SIZE - EVICT_BATCH + 1
    /\ DocId(1) \in CacheIds(fileCache)
    /\ DocId(2) \notin CacheIds(fileCache)
    /\ fileCache[1].id = DocId(1)

\* C22: a download never begins for an attachment whose identifier is
\* recorded in the document cache, and within one collection run the
\* attachment of an identifier is downloaded and parsed at most once,
\* whatever the interleaving of the workers.  A download begins only for an
\* attachment that no task of the run has taken up (its name and size are
\* not in the collector's set, and are in it afterwards), the set loses
\* members only when start_collection begins a run, attachments of one
\* identifier have one name and size, and a parse records an identifier the
\* cache did not hold.
C22_DownloadedOnce ==
    [][/\ \A w \in DOMAIN workers : \A task \in {"hist", "live"} :
              (TaskPc(w, task) # "download" /\ TaskPc(w, task)' = "download")
              => LET file == (TaskMessage(w, task)').file
                 IN  /\ ~is_file_already_processed(fileCache, FileTable[file].identifier, "")
                     /\ <<file.name, file.size>> \notin processedFiles
                     /\ <<file.name, file.size>> \in processedFiles'
       /\ ~(processedFiles \subseteq processedFiles') => (~collecting /\ collecting')
       /\ \A f \in WorldFiles : \A g \in WorldFiles :
              FileTable[f].identifier = FileTable[g].identifier
              => <<f.name, f.size>> = <<g.name, g.size>>
       /\ fileCache' # fileCache
              => /\ Len(fileCache') = Len(fileCache) + 1
                 /\ SubSeq(fileCache', 1, Len(fileCache)) = fileCache
                 /\ fileCache'[Len(fileCache')].id \notin CacheIds(fileCache)]_vars

\* one worker has downloaded and recorded an attachment, and another worker
\* has been through a message that carries the same attachment
C22_Witness ==
    /\ Len(workers) = 2
    /\ \E d1 \in DOMAIN Dialogs[workers[1].acct] : \E d2 \in DOMAIN Dialogs[workers[2].acct] :
       \E k1 \in DOMAIN Dialogs[workers[1].acct][d1].messages :
       \E k2 \in DOMAIN Dialogs[workers[2].acct][d2].messages :
          LET m1 == Dialogs[workers[1].acct][d1].messages[k1]
              m2 == Dialogs[workers[2].acct][d2].messages[k2]
          IN  /\ m1.file # NoFile
              /\ m1.file = m2.file
              /\ Passed(1, d1, k1)
              /\ Passed(2, d2, k2)
              /\ FileTable[m1.file].identifier \in CacheIds(fileCache)

\* C23: the temporary file of a download exists only while
\* extract_links_from_file is running: whatever exists under the temporary
\* root or was written by a download lies in the directory of a call that is
\* still suspended on its download, and no two downloads have the same
\* temporary location.
C23_TempFileScoped ==
    /\ \A p \in tempFiles :
          \E t \in DOMAIN workers :
             /\ workers[t].pc = "download"
             /\ (p = workers[t].tmpdir \/ StartsWith(p, workers[t].tmpdir \o "/"))
    /\ \A t1 \in DOMAIN workers : \A t2 \in DOMAIN workers :
          (t1 # t2 /\ workers[t1].pc = "download" /\ workers[t2].pc = "download")
          => temp_path(workers[t1].tmpdir, workers[t1].file)
                 # temp_path(workers[t2].tmpdir, workers[t2].file)

\* C24: once the file extractor has handled an attachment of an unsupported
\* type, or a supported attachment that yielded zero links, the attachment's
\* identifier is recorded in the document cache.
C24_HandledIsRecorded ==
    \A t \in DOMAIN workers :
        (/\ workers[t].pc = "returned"
         /\ \/ workers[t].exit = "unsupported"
            \/ (workers[t].exit = "extracted" /\ workers[t].links = 0))
        => is_file_already_processed(fileCache, FileTable[workers[t].file].identifier, "")

\* C25: for one message, the comment extractor that the per-message
\* pipeline runs reads at most 100 top-level replies and at most 50 nested
\* replies per top-level reply, however many replies the thread holds.
C25_CommentReadsCapped ==
    \A c \in DOMAIN workers :
        /\ workers[c].read <= COMMENT_LIMIT
        /\ workers[c].nested <= NESTED_LIMIT

\* what follows http://t.me/ or https://t.me/ in a URL, up to the query
TmePath(url) ==
    SplitFirst(SubSeq(url, Find(Lower(url), "t.me/") + 5, Len(url)), "?")

IsTmeUrl(url) ==
    StartsWith(Lower(url), "https://t.me/") \/ StartsWith(Lower(url), "http://t.me/")

\* a non-empty string of letters, digits, _ and -
IsWord(s) == s # "" /\ \A i \in 1..Len(s) : InChars(Ch(Lower(s), i), TgWordChars)

\* the path has a bot marker or an invite-path marker
HasRejectedMarker(path) ==
    \/ StartsWith(Lower(path), "bot")
    \/ StartsWith(Lower(path), "invite")
    \/ Contains(Lower(path), "/bot/")
    \/ Contains(Lower(path), "/invite/")

\* + followed by 7 to 12 digits
LooksLikePhone(segment) ==
    /\ StartsWith(segment, "+")
    /\ IsDigit(SubSeq(segment, 2, Len(segment)))
    /\ Len(segment) - 1 \in 7..12

\* C26: for every t.me URL, classify rejects it if the path contains a bot
\* marker, an invite-path marker or more than one path segment; otherwise a
\* single segment starting with + (not a phone number) gives
\* (telegram_invite_with_plus, group) and a single segment of letters,
\* digits, _ and - gives (telegram_invite_without_plus, group), with channel
\* only when a channel marker is present.
C26_TelegramTable ==
    \A c \in DOMAIN workers :
        IsTmeUrl(workers[c].url)
        => LET url == workers[c].url
               result == workers[c].result
               path == TmePath(url)
           IN  IF HasRejectedMarker(path) \/ Contains(path, "/")
               THEN result = None
               ELSE /\ (/\ StartsWith(path, "+")
                        /\ IsWord(SubSeq(path, 2, Len(path)))
                        /\ ~LooksLikePhone(path))
                       => result = <<"telegram_invite_with_plus", "group">>
                    /\ IsWord(path)
                       => /\ result # None
                          /\ result[1] = "telegram_invite_without_plus"
                          /\ result[2] \in {"group", "channel"}
                          /\ result[2] = "channel"
                                => (Contains(Lower(url), "c/") \/ Contains(Lower(url), "channel/"))

\* C27: classify rejects every t.me URL whose single path segment is +
\* followed by n digits for each n from 7 to 12, and does not reject it on
\* this ground when n is below 7 or above 12.
C27_PhoneRule ==
    \A c \in DOMAIN workers : \A n \in PhoneLens :
        workers[c].url = "https://t.me/+" \o Digits(n)
        => (workers[c].result = None <=> n \in 7..12)

\* C28: for every URL string, with or without an http scheme, classify
\* returns a rejection or a pair whose platform_subtype is whatsapp,
\* telegram_invite_with_plus or telegram_invite_without_plus and whose
\* chat_type is group, channel, private or unknown.
C28_ClosedSubtypes ==
    \A c \in DOMAIN workers :
        \/ workers[c].result = None
        \/ /\ workers[c].result[1] \in {"whatsapp", "telegram_invite_with_plus",
                                         "telegram_invite_without_plus"}
           /\ workers[c].result[2] \in {"group", "channel", "private", "unknown"}

\* C29: within one collection run a worker runs the per-message pipeline at
\* most once for a message: a message that arrives while the worker is
\* backfilling is not processed both by the new-message handler and by the
\* history iteration.
C29_PipelineOncePerMessage ==
    Len(starts) <= 1 => \A w \in DOMAIN workers : workers[w].liveRuns <= 1

\* C30: whatever the sequence of start() and stop(), at most one worker per
\* account is backfilling at any time: a worker of an earlier run that was
\* suspended inside a message across stop() and start() does not go on with
\* its backfill beside the new worker of the account.
C30_OneBackfillPerAccount ==
    \A v \in DOMAIN workers : \A w \in DOMAIN workers :
        (v # w /\ workers[v].acct = workers[w].acct)
        => ~(workers[v].pc \in BackfillPcs /\ workers[w].pc \in BackfillPcs)

====
